---- MODULE Spec2Model ----
(***************************************************************************)
(* Model of object_detection/detectron2_training.ipynb.                    *)
(*                                                                         *)
(* Two specifications:                                                     *)
(*   SpecFormat  the function format_detectron2_predictions(ins,           *)
(*               num_classes), applied to inputs drawn from bounded sets;   *)
(*   Spec        the notebook's cells run top to bottom (register, config,  *)
(*               train, predictor, inference loop, dump).                   *)
(*                                                                         *)
(* Numbers: box coordinates are small integers, scores are percentages     *)
(* (0.7 is 70).  np.array(..., dtype=np.float32) is applied to values that  *)
(* come out of float32 tensors through .item()/list(), so it changes no      *)
(* value; what the model keeps of it is the resulting shape.                *)
(***************************************************************************)
EXTENDS Integers, Sequences, FiniteSets, TLC

VARIABLES
    \* ---- format_detectron2_predictions call ----
    ins,            \* the Instances argument: its fields
    num_classes,    \* the num_classes argument
    ret,            \* outcome of the call
    \* ---- notebook kernel ----
    pc,             \* next cell / step to run
    catalog,        \* DatasetCatalog: registered name -> image root
    cfg,            \* the detectron2 config node (fields the notebook sets)
    files,          \* files the notebook writes: model_final.pth, predictions.pkl
    predictor,      \* DefaultPredictor object (or NoValue)
    labels,         \* contents of labels.pkl once loaded
    dataset,        \* the kernel's binding of the name `dataset`
    results,        \* the list built by the inference loop
    pos,            \* position of the for loop in dataset
    calls,          \* log of predictor(im) calls: image read, weights used, output
    dumps           \* number of times predictions.pkl has been written

fvars == <<ins, num_classes, ret>>
nvars == <<pc, catalog, cfg, files, predictor, labels, dataset, results, pos, calls,
          dumps>>
vars == <<ins, num_classes, ret, pc, catalog, cfg, files, predictor, labels,
          dataset, results, pos, calls, dumps>>

-----------------------------------------------------------------------------
(* Bounds *)

MaxDet == 2
MaxClasses == 3
MaxImages == 2
MaxInst == 1

Boxes == {<<1, 2, 3, 4>>, <<5, 6, 7, 8>>}
Scores == {80, 90}

\* predicted classes handed to the function: in range, negative, too large
ClassRange == -(MaxClasses + 1) .. MaxClasses

NoValue == [kind |-> "none"]

-----------------------------------------------------------------------------
(* format_detectron2_predictions *)

\* len(fields['pred_classes'])
NumDet(i) == Len(i.pred_classes)

\* variant: the score is read at a fixed position instead of position i
BoxCord_ScoreOfFirst(i, k) == Append(i.pred_boxes[k], i.scores[1])

\* list(boxes[i]) followed by box_cord.append(probs)
BoxCord(i, k) == Append(i.pred_boxes[k], i.scores[k])

\* Python list indexing res[pred_class] on a list of length n: the 0-based
\* position, or -1 for IndexError.  Negative indices count from the end.
ListIndex(n, c) ==
    IF c >= 0 /\ c < n THEN c
    ELSE IF c < 0 /\ c >= -n THEN n + c
    ELSE -1

\* variant: the class's list is reassigned instead of appended to
AppendTo_Overwrite(res, idx, row) == [res EXCEPT ![idx + 1] = <<row>>]

\* variant: the row is inserted at the front of the class's list
AppendTo_Prepend(res, idx, row) == [res EXCEPT ![idx + 1] = <<row>> \o @]

\* res[pred_class].append(box_cord)
AppendTo(res, idx, row) == [res EXCEPT ![idx + 1] = Append(@, row)]

\* the first loop: k is the 1-based position of the next detection;
\* the result is the list of lists res, or "IndexError"
RECURSIVE GroupLoop(_, _, _, _)
GroupLoop(i, n, k, res) ==
    IF k > NumDet(i) THEN [raised |-> "none", res |-> res]
    ELSE LET idx == ListIndex(n, i.pred_classes[k])
         IN  IF idx = -1 THEN [raised |-> "IndexError", res |-> <<>>]
             ELSE GroupLoop(i, n, k + 1, AppendTo(res, idx, BoxCord(i, k)))

\* variant: the empty list is converted without the reshape (shape (0,))
EmptyArray_NoReshape(n) == [shape |-> <<0>>, data |-> <<>>]

\* np.array(i,dtype=np.float32).reshape((0,num_classes)) for an empty list
EmptyArray(n) == [shape |-> <<0, n>>, data |-> <<>>]

\* np.array(i,dtype=np.float32) for a non-empty list of equal-length rows
FullArray(rows) == [shape |-> <<Len(rows), Len(rows[1])>>, data |-> rows]

\* variant: classes without detections are skipped instead of padded
ToArrays_SkipEmpty(res, n) ==
    LET RECURSIVE Keep(_)
        Keep(c) == IF c > Len(res) THEN <<>>
                   ELSE IF Len(res[c]) = 0 THEN Keep(c + 1)
                   ELSE <<FullArray(res[c])>> \o Keep(c + 1)
    IN  Keep(1)

\* the second loop
ToArrays(res, n) ==
    [c \in 1 .. Len(res) |->
        IF Len(res[c]) = 0 THEN EmptyArray(n) ELSE FullArray(res[c])]

format_detectron2_predictions(i, n) ==
    LET g == GroupLoop(i, n, 1, [c \in 1 .. n |-> <<>>])
    IN  IF g.raised = "none"
        THEN [raised |-> "none", res2 |-> ToArrays(g.res, n)]
        ELSE [raised |-> g.raised, res2 |-> <<>>]

-----------------------------------------------------------------------------
(* Inputs of the function *)

InstancesOf(n, classes, boxes, scores) ==
    [pred_boxes : [1 .. n -> boxes], pred_classes : [1 .. n -> classes],
     scores : [1 .. n -> scores]]

AllInstances(maxn, classes, boxes, scores) ==
    UNION { InstancesOf(n, classes, boxes, scores) : n \in 0 .. maxn }

NotCalled == [raised |-> "not called", res2 |-> <<>>]

\* the kernel is idle while the function is exercised on its own
NotebookIdle ==
    /\ pc = "idle"
    /\ catalog = {}
    /\ cfg = NoValue
    /\ files = [model_final |-> NoValue, predictions |-> NoValue]
    /\ predictor = NoValue
    /\ labels = NoValue
    /\ dataset = NoValue
    /\ results = <<>>
    /\ pos = 0
    /\ calls = <<>>
    /\ dumps = 0

InitFormat ==
    /\ num_classes \in 0 .. MaxClasses
    /\ \E n \in 0 .. MaxDet : ins \in InstancesOf(n, ClassRange, Boxes, Scores)
    /\ ret = NotCalled
    /\ NotebookIdle

CallFormat ==
    /\ ret = NotCalled
    /\ ret' = format_detectron2_predictions(ins, num_classes)
    /\ UNCHANGED <<ins, num_classes>>
    /\ UNCHANGED nvars

NextFormat == CallFormat

SpecFormat == InitFormat /\ [][NextFormat]_vars

-----------------------------------------------------------------------------
(* Properties of format_detectron2_predictions *)

Called == ret.raised # "not called"
Returned == ret.raised = "none"

\* every predicted class lies in 0..num_classes-1
InRange == \A k \in 1 .. NumDet(ins) : ins.pred_classes[k] \in 0 .. num_classes - 1

\* the row a detection must produce: its four coordinates, then its score
RowOf(k) == <<ins.pred_boxes[k][1], ins.pred_boxes[k][2], ins.pred_boxes[k][3],
              ins.pred_boxes[k][4], ins.scores[k]>>

\* positions of the detections predicted as class c
DetOfClass(c) == { k \in 1 .. NumDet(ins) : ins.pred_classes[k] = c }

\* output array of class c (0-based class index)
ArrayOf(c) == ret.res2[c + 1]

RECURSIVE SumRows(_, _)
SumRows(arrays, c) ==
    IF c > Len(arrays) THEN 0 ELSE Len(arrays[c].data) + SumRows(arrays, c + 1)

\* rows of the detections of class c, in input order
RECURSIVE RowsFrom(_, _)
RowsFrom(c, k) ==
    IF k > NumDet(ins) THEN <<>>
    ELSE IF ins.pred_classes[k] = c THEN <<RowOf(k)>> \o RowsFrom(c, k + 1)
    ELSE RowsFrom(c, k + 1)

\* C1: with all predicted classes in range, the call returns and array c holds
\* exactly the detections predicted as class c: k_c rows, each row value as
\* often as it occurs among those detections, and the row counts sum to N.
C1_GroupedByClass ==
    (Called /\ InRange) =>
        /\ Returned
        /\ Len(ret.res2) = num_classes
        /\ \A c \in 0 .. num_classes - 1 :
              /\ Len(ArrayOf(c).data) = Cardinality(DetOfClass(c))
              /\ ArrayOf(c).shape[1] = Cardinality(DetOfClass(c))
              /\ \A r \in { RowOf(k) : k \in 1 .. NumDet(ins) } :
                    Cardinality({ j \in 1 .. Len(ArrayOf(c).data) : ArrayOf(c).data[j] = r })
                    = Cardinality({ k \in DetOfClass(c) : RowOf(k) = r })
        /\ SumRows(ret.res2, 1) = NumDet(ins)

\* two detections of different classes, and a class left empty
C1_Witness ==
    /\ Returned /\ InRange
    /\ NumDet(ins) = 2
    /\ ins.pred_classes[1] # ins.pred_classes[2]
    /\ num_classes = 3
    /\ Len(ArrayOf(ins.pred_classes[1]).data) = 1
    /\ Len(ArrayOf(ins.pred_classes[2]).data) = 1

\* C2: every returned array has shape (k_c, 5), the arrays of classes with no
\* detection included (shape (0, 5)).
C2_EveryArrayHasFiveColumns ==
    Returned =>
        \A c \in 1 .. Len(ret.res2) :
            ret.res2[c].shape = <<Len(ret.res2[c].data), 5>>

\* C3: with all predicted classes in range the call returns a list of exactly
\* num_classes arrays, array c holding only rows of detections predicted as c;
\* with zero detections all of them are zero-row arrays.
C3_OneArrayPerClass ==
    (Called /\ InRange) =>
        /\ Returned
        /\ Len(ret.res2) = num_classes
        /\ \A c \in 0 .. num_classes - 1 :
              \A j \in 1 .. Len(ArrayOf(c).data) :
                  \E k \in DetOfClass(c) : ArrayOf(c).data[j] = RowOf(k)
        /\ (NumDet(ins) = 0 =>
              \A c \in 1 .. Len(ret.res2) :
                  ret.res2[c].shape[1] = 0 /\ ret.res2[c].data = <<>>)

\* no detection at all: every class is padded
C3_Witness ==
    /\ Returned
    /\ NumDet(ins) = 0
    /\ num_classes = 3
    /\ Len(ret.res2) = 3
    /\ \A c \in 1 .. 3 : ret.res2[c].shape[1] = 0

\* C4: every output row is the row of one detection i: the four coordinates of
\* pred_boxes[i] in order, then scores[i].
C4_RowPairsBoxWithItsScore ==
    Returned =>
        \A c \in 1 .. Len(ret.res2) :
            \A j \in 1 .. Len(ret.res2[c].data) :
                \E k \in 1 .. NumDet(ins) : ret.res2[c].data[j] = RowOf(k)

\* two detections that differ in box and in score
C4_Witness ==
    /\ Returned
    /\ NumDet(ins) = 2
    /\ ins.pred_boxes[1] # ins.pred_boxes[2]
    /\ ins.scores[1] # ins.scores[2]
    /\ SumRows(ret.res2, 1) = 2

\* C8: grouping is stable: array c lists the rows of the detections predicted
\* as class c in their input order.
C8_StableGrouping ==
    (Returned /\ InRange) =>
        \A c \in 0 .. num_classes - 1 : ArrayOf(c).data = RowsFrom(c, 1)

\* two different detections of the same class
C8_Witness ==
    /\ Returned /\ InRange
    /\ NumDet(ins) = 2
    /\ ins.pred_classes[1] = ins.pred_classes[2]
    /\ RowOf(1) # RowOf(2)
    /\ ArrayOf(ins.pred_classes[1]).data = <<RowOf(1), RowOf(2)>>

\* C9: when some predicted class lies outside 0..num_classes-1 the call fails
\* with an error and returns no list.
C9_OutOfRangeClassRaises ==
    (Called /\ ~InRange) => ret.raised = "IndexError"

-----------------------------------------------------------------------------
(* The notebook: constants and helpers *)

NUM_CLASSES == 5
SCORE_THRESH_TEST == 70

\* paths are sequences of components; os.path.join of a relative part
PathJoin(a, b) == a \o b

IMAGE_PATH == <<"..", "data", "coco">>
TRAIN_PATH == PathJoin(IMAGE_PATH, <<"train2017">>)
VAL_PATH == PathJoin(IMAGE_PATH, <<"val2017">>)

ZooCheckpoint == <<"model_zoo", "COCO-Detection", "faster_rcnn_X_101_32x8d_FPN_3x">>
OutputDir == <<".", "output">>

\* the records of labels.pkl / dataset: the 'seg_map' entry is a file name
SegMaps == { [stem |-> "000000000139", ext |-> "png"],
             [stem |-> "000000000285", ext |-> "png"] }

ImageLists ==
    UNION { [1 .. n -> { [seg_map |-> f] : f \in SegMaps }] : n \in 0 .. MaxImages }

Unbound == [kind |-> "unbound"]

\* a Python list held by a name or pickled into a file
ListValue(l) == [kind |-> "list", items |-> l]

\* i['seg_map'].replace(".png",'.jpg')
ReplacePng(f) == IF f.ext = "png" THEN [f EXCEPT !.ext = "jpg"] ELSE f

\* variant: the image is looked up under the training directory
ImName_FromTrain(entry) == [dir |-> TRAIN_PATH, file |-> ReplacePng(entry.seg_map)]

\* im_name = os.path.join(VAL_PATH, i['seg_map'].replace(".png",'.jpg'))
ImName(entry) == [dir |-> VAL_PATH, file |-> ReplacePng(entry.seg_map)]

ImageFiles == { ReplacePng(f) : f \in SegMaps }

\* what a network with n classes can answer for one image
RawOutputs(n) == AllInstances(MaxInst, 0 .. n - 1, {<<1, 2, 3, 4>>}, {90})

\* the pretrained checkpoint: never fitted to this dataset
ZooWeights ==
    [kind |-> "zoo", images |-> {},
     detect |-> [f \in ImageFiles |-> [pred_boxes |-> <<>>, pred_classes |-> <<>>, scores |-> <<>>]]]

\* the checkpoint a path designates
LoadCheckpoint(path, fs) ==
    IF path = ZooCheckpoint THEN ZooWeights
    ELSE IF path = PathJoin(OutputDir, <<"model_final.pth">>) THEN fs.model_final
    ELSE NoValue

\* variant: the predictor cell keeps the weights path of the training config
PredictorWeightsPath_Unchanged(c) == c.WEIGHTS

\* cfg.MODEL.WEIGHTS = os.path.join(cfg.OUTPUT_DIR, "model_final.pth")
PredictorWeightsPath(c) == PathJoin(c.OUTPUT_DIR, <<"model_final.pth">>)

\* detections of an Instances value whose score exceeds the threshold
RECURSIVE KeepAbove(_, _, _)
KeepAbove(i, t, k) ==
    IF k > NumDet(i) THEN [pred_boxes |-> <<>>, pred_classes |-> <<>>, scores |-> <<>>]
    ELSE LET rest == KeepAbove(i, t, k + 1)
         IN  IF i.scores[k] > t
             THEN [pred_boxes |-> <<i.pred_boxes[k]>> \o rest.pred_boxes,
                   pred_classes |-> <<i.pred_classes[k]>> \o rest.pred_classes,
                   scores |-> <<i.scores[k]>> \o rest.scores]
             ELSE rest

\* outputs["instances"] of predictor(im)
Predict(p, im) == KeepAbove(p.weights.detect[im.file], p.thresh, 1)

-----------------------------------------------------------------------------
(* The notebook: cells *)

\* `dataset` is read by the inference loop but bound by no cell: the kernel
\* either has no such name or holds a list bound outside the notebook.
Init ==
    /\ pc = "register"
    /\ catalog = {}
    /\ cfg = NoValue
    /\ files = [model_final |-> NoValue, predictions |-> NoValue]
    /\ predictor = NoValue
    /\ labels = NoValue
    /\ dataset \in {Unbound} \cup { ListValue(l) : l \in ImageLists }
    /\ results = <<>>
    /\ pos = 0
    /\ calls = <<>>
    /\ dumps = 0
    /\ ins = NoValue
    /\ num_classes = 0
    /\ ret = NotCalled

\* register_coco_instances for the training and the validation set
Cell_Register ==
    /\ pc = "register"
    /\ catalog' = catalog \cup
          { [name |-> "my_dataset_train", json |-> "instances_train2017_5labels.json",
             image_root |-> TRAIN_PATH],
            [name |-> "my_dataset_val", json |-> "instances_val2017_5labels.json",
             image_root |-> VAL_PATH] }
    /\ pc' = "config"
    /\ UNCHANGED <<cfg, files, predictor, labels, dataset, results, pos, calls, dumps>>
    /\ UNCHANGED fvars

\* get_cfg(), merge_from_file and the assignments of the config cell
Cell_Config ==
    /\ pc = "config"
    /\ cfg' = [DATASETS_TRAIN |-> {"my_dataset_train"},
               DATASETS_TEST |-> {"my_dataset_val"},
               WEIGHTS |-> ZooCheckpoint,
               NUM_CLASSES |-> NUM_CLASSES,
               SCORE_THRESH_TEST |-> 5,
               OUTPUT_DIR |-> OutputDir]
    /\ pc' = "train"
    /\ UNCHANGED <<catalog, files, predictor, labels, dataset, results, pos, calls, dumps>>
    /\ UNCHANGED fvars

\* DefaultTrainer(cfg), resume_or_load(resume=False), train(): starts from
\* cfg.MODEL.WEIGHTS, fits on the images of cfg.DATASETS.TRAIN and writes
\* OUTPUT_DIR/model_final.pth.  What the fitted network answers is not known.
Cell_Train ==
    /\ pc = "train"
    /\ \E d \in [ImageFiles -> RawOutputs(cfg.NUM_CLASSES)] :
          files' = [files EXCEPT !.model_final =
                      [kind |-> "trained",
                       images |-> { r.image_root : r \in { q \in catalog : q.name \in cfg.DATASETS_TRAIN } },
                       detect |-> d]]
    /\ pc' = "predictor"
    /\ UNCHANGED <<catalog, cfg, predictor, labels, dataset, results, pos, calls, dumps>>
    /\ UNCHANGED fvars

\* the predictor cell: point cfg at the trained weights, set the threshold,
\* build DefaultPredictor(cfg)
Cell_Predictor ==
    /\ pc = "predictor"
    /\ LET c == [cfg EXCEPT !.WEIGHTS = PredictorWeightsPath(cfg),
                            !.SCORE_THRESH_TEST = SCORE_THRESH_TEST]
       IN  /\ cfg' = c
           /\ predictor' = [weights |-> LoadCheckpoint(c.WEIGHTS, files),
                            thresh |-> c.SCORE_THRESH_TEST]
    /\ pc' = "inference"
    /\ UNCHANGED <<catalog, files, labels, dataset, results, pos, calls, dumps>>
    /\ UNCHANGED fvars

\* labels = pickle.load(open("labels.pkl",'rb')); results = []
Cell_Inference_Load ==
    /\ pc = "inference"
    /\ \E l \in ImageLists : labels' = ListValue(l)
    /\ results' = <<>>
    /\ pos' = 0
    /\ pc' = "loop"
    /\ UNCHANGED <<catalog, cfg, files, predictor, dataset, calls, dumps>>
    /\ UNCHANGED fvars

\* `for i in dataset` when the kernel holds no such name
Cell_Inference_NameError ==
    /\ pc = "loop"
    /\ dataset = Unbound
    /\ pc' = "failed"
    /\ UNCHANGED <<catalog, cfg, files, predictor, labels, dataset, results, pos, calls, dumps>>
    /\ UNCHANGED fvars

\* one iteration of the loop: read the image, predict, reformat, append
Cell_Inference_Iterate ==
    /\ pc = "loop"
    /\ dataset # Unbound
    /\ pos < Len(dataset.items)
    /\ LET im == ImName(dataset.items[pos + 1])
           outputs == Predict(predictor, im)
           formatted == format_detectron2_predictions(outputs, cfg.NUM_CLASSES)
       IN  /\ calls' = Append(calls, [im |-> im, weights |-> predictor.weights,
                                      thresh |-> predictor.thresh, out |-> outputs])
           /\ IF formatted.raised = "none"
              THEN /\ results' = Append(results, formatted.res2)
                   /\ pos' = pos + 1
                   /\ pc' = pc
              ELSE /\ pc' = "failed"
                   /\ UNCHANGED <<results, pos>>
    /\ UNCHANGED <<catalog, cfg, files, predictor, labels, dataset, dumps>>
    /\ UNCHANGED fvars

\* cv2.imread returns None for a file that cannot be read; predictor(None) raises
Cell_Inference_ImageMissing ==
    /\ pc = "loop"
    /\ dataset # Unbound
    /\ pos < Len(dataset.items)
    /\ pc' = "failed"
    /\ UNCHANGED <<catalog, cfg, files, predictor, labels, dataset, results, pos, calls, dumps>>
    /\ UNCHANGED fvars

\* pickle.dump(results,open("predictions.pkl",'wb'))
Cell_Inference_Dump ==
    /\ pc = "loop"
    /\ dataset # Unbound
    /\ pos = Len(dataset.items)
    /\ files' = [files EXCEPT !.predictions = ListValue(results)]
    /\ dumps' = dumps + 1
    /\ pc' = "done"
    /\ UNCHANGED <<catalog, cfg, predictor, labels, dataset, results, pos, calls>>
    /\ UNCHANGED fvars

Next ==
    \/ Cell_Register
    \/ Cell_Config
    \/ Cell_Train
    \/ Cell_Predictor
    \/ Cell_Inference_Load
    \/ Cell_Inference_NameError
    \/ Cell_Inference_Iterate
    \/ Cell_Inference_ImageMissing
    \/ Cell_Inference_Dump

Spec == Init /\ [][Next]_vars

-----------------------------------------------------------------------------
(* Properties of the notebook *)

C6_PredictionsOutOfSample ==
    /\ TRAIN_PATH # VAL_PATH
    /\ (files.model_final # NoValue => files.model_final.images = {TRAIN_PATH})
    /\ \A j \in 1 .. Len(calls) :
          /\ calls[j].im.dir = VAL_PATH
          /\ calls[j].im.dir \notin calls[j].weights.images

C6_Witness ==
    /\ Len(calls) = 2
    /\ calls[1].im # calls[2].im
    /\ calls[1].weights.images = {TRAIN_PATH}

\* C7: once the inference cell has ended, results has one entry per entry of
\* labels, in the same order (results[j] is the reformatted prediction for the
\* image of labels[j]), and predictions.pkl holds exactly that list.
C7_ResultsAlignedWithLabels ==
    (pc \in {"done", "failed"} /\ labels # NoValue) =>
        /\ Len(results) = Len(labels.items)
        /\ Len(calls) = Len(labels.items)
        /\ \A j \in 1 .. Len(labels.items) :
              /\ calls[j].im = ImName(labels.items[j])
              /\ results[j] = format_detectron2_predictions(calls[j].out, NUM_CLASSES).res2
        /\ files.predictions = ListValue(results)

\* C10: every entry appended to results is a list of exactly 5 arrays, each
\* with exactly 5 columns, for any number of detections (zero included).
C10_FiveArraysOfFiveColumns ==
    \A j \in 1 .. Len(results) :
        /\ Len(results[j]) = 5
        /\ \A c \in 1 .. Len(results[j]) :
              /\ Len(results[j][c].shape) = 2
              /\ results[j][c].shape[2] = 5

\* an image without detections and an image with one
C10_Witness ==
    /\ Len(results) = 2
    /\ \E j \in 1 .. 2 : NumDet(calls[j].out) = 0
    /\ \E j \in 1 .. 2 : NumDet(calls[j].out) > 0

====
